---- MODULE Spec2Model ----
(***************************************************************************)
(* Model of the task orchestrator NarupaOrchestrator                       *)
(* (src/src/narupa-orchestrator.ts).                                       *)
(*                                                                         *)
(* The orchestrator is single-threaded asynchronous code: everything       *)
(* between two awaits runs atomically.  One action of the model is one     *)
(* such run-to-suspension block: of executeAll (the scheduler), or of one  *)
(* executeTask call chain (a task execution, i.e. one promise pushed on    *)
(* executionQueue).  The process manager (backend) is an external          *)
(* collaborator: the outcome of each of its answers is a nondeterministic  *)
(* choice.  A continuation of a task execution waits for a timer, for an   *)
(* answer of the bridge process or for the answer of the HITL callback:    *)
(* these arrive as tasks of the event loop, and none is run while a        *)
(* continuation of the scheduler is queued as a microtask.                 *)
(*                                                                         *)
(* `return this.executeTask(...)` in the catch block of executeTask is not *)
(* awaited: the promise of the call chain adopts the inner promise, the    *)
(* outer catch never sees its rejection, and the outer finally block runs  *)
(* as soon as the inner call has reached its first await.  One element of  *)
(* `execs` therefore stands for the whole chain of retries and fallback    *)
(* started by one dispatch.                                                *)
(*                                                                         *)
(* The caller (addTask, setHITLCallback, executeAll, cleanup) acts only    *)
(* while no executeAll and no cleanup call is in progress; after a cleanup *)
(* that found no task execution in flight it may register its batch        *)
(* again.  processManager.initialize, awaited before startServer when the  *)
(* manager is not running, is taken together with startServer as the       *)
(* acquisition of the backend; of the process manager (src/src/types.ts)   *)
(* the state holds whether the bridge process exists; its tables and its   *)
(* own calls are modelled apart, in the specification ManagerSpec.  Of the *)
(* events, the state holds whether the current executeAll call has emitted *)
(* orchestration-started and, when a listener that records them is         *)
(* registered for every event, the events emitted so far.                  *)
(***************************************************************************)
EXTENDS Integers, Sequences, FiniteSets, TLC

\* ---------------------------------------------------------------- bounds
MaxRetries == 2
MaxParallelBound == 2
MaxRuns == 2
MaxBatch == 4
MaxCleanups == 2
MaxServers == 2

\* ---------------------------------------------------------------- inputs
NoDeps == << >>

Task(id, deps, hitl, fb, retries, par) ==
  [ id |-> id, deps |-> deps, hitlGate |-> hitl, fallback |-> fb,
    maxRetries |-> retries, parallel |-> par ]

Plain(id, deps, par) == Task(id, deps, FALSE, {}, 0, par)

\* The fallback tasks: without dependencies, or declaring one of its own.
FallbackTasks == { Plain("F", d, FALSE) : d \in {NoDeps, <<"B">>} }

Fallbacks == {{}} \cup {{t} : t \in FallbackTasks}

\* The batches of tasks a caller registers, in registration order.
\* Executor batches: one task "A" with any combination of the options of
\* the Task interface, alone or with a dependent "B".
ExecutorBatches ==
  LET As == { Task("A", NoDeps, h, f, r, p) :
                h \in BOOLEAN, f \in Fallbacks, r \in 0..MaxRetries,
                p \in BOOLEAN }
  IN { << a >> : a \in As }
     \cup { << a, Plain("B", <<"A">>, FALSE) >> : a \in As }

\* Scheduler batches: three tasks, "B" and "C" independent of "A" or
\* depending on it, with or without the parallel flag; "A" may have one
\* retry or a fallback.
SchedulerBatches ==
  { << Task("A", NoDeps, FALSE, o[1], o[2], pa), Plain("B", db, pb),
       Plain("C", dc, TRUE) >> :
      o \in { << {}, 0 >>, << {}, 1 >>, << {Plain("F", NoDeps, FALSE)}, 0 >> },
      pa \in BOOLEAN, db \in {NoDeps, <<"A">>}, pb \in BOOLEAN,
      dc \in {NoDeps, <<"A">>} }

\* A dependent registered before, or without, the task it depends on; a
\* pipeline A <- B <- C; an independent task registered before a task and
\* its dependent.
OtherBatches ==
  { << Plain("B", <<"A">>, TRUE), Plain("A", NoDeps, TRUE) >>,
    << Plain("B", <<"A">>, FALSE) >> }
  \cup { << Plain("A", NoDeps, pa), Plain("B", <<"A">>, pb),
            Plain("C", <<"B">>, TRUE) >> : pa, pb \in BOOLEAN }
  \cup { << Plain("C", NoDeps, pc), Plain("A", NoDeps, pa),
            Plain("B", <<"A">>, TRUE) >> : pc, pa \in BOOLEAN }

\* Gate batches: a task with a HITL gate and an independent parallel task.
GateBatches ==
  { << Task("A", NoDeps, TRUE, {}, 0, pa), Plain("B", NoDeps, TRUE) >> :
      pa \in BOOLEAN }

\* Duplicate batches: two tasks registered under the same id, one after the
\* other or with another task in between.
DuplicateBatches ==
  { << Plain("A", NoDeps, FALSE), Task("A", NoDeps, FALSE, {}, 1, TRUE) >>,
    << Plain("A", NoDeps, FALSE), Plain("B", NoDeps, TRUE),
       Task("A", NoDeps, FALSE, {}, 1, TRUE) >> }

\* Mixed batches: a parallel task "B" dispatched between two tasks that the
\* scheduler awaits, and a dependent of "B".
MixedBatches ==
  { << Plain("A", NoDeps, FALSE), Plain("B", NoDeps, TRUE),
       Plain("C", NoDeps, FALSE), Plain("D", <<"B">>, TRUE) >> }

\* Serial batches: a task without the parallel flag, with a retry and a
\* fallback, registered between two tasks with the flag.
SerialBatches ==
  { << Plain("B", NoDeps, TRUE),
       Task("A", NoDeps, FALSE, {Plain("F", NoDeps, FALSE)}, 1, FALSE),
       Plain("C", NoDeps, TRUE) >> }

\* Cyclic batches: two tasks that depend on each other, with a dependent
\* or after an independent task; a task that depends on itself.
CyclicBatches ==
  { << Plain("A", <<"B">>, TRUE), Plain("B", <<"A">>, FALSE),
       Plain("C", <<"B">>, TRUE) >>,
    << Plain("A", <<"A">>, TRUE) >> }
  \cup { << Plain("D", NoDeps, pd), Plain("A", <<"B">>, TRUE),
            Plain("B", <<"A">>, TRUE) >> : pd \in BOOLEAN }

Batches ==
  ExecutorBatches \cup SchedulerBatches \cup OtherBatches \cup GateBatches
    \cup DuplicateBatches \cup MixedBatches \cup SerialBatches
    \cup CyclicBatches

\* ---------------------------------------------------------------- state
VARIABLES
  nodes,         \* every GraphNode ever created, with its TaskResult
  parents,       \* the `parents` arrays  (array id -> sequence of nodes)
  children,      \* the `children` arrays (array id -> sequence of nodes)
  tasks,         \* this.tasks   : id -> node
  results,       \* this.results : id -> node whose result is stored
  order,         \* insertion order of the keys of both maps
  hitlCallback,  \* this.hitlCallback is set
  maxParallel,   \* this.maxParallel
  runningTasks,  \* this.runningTasks
  sched,         \* position of the executeAll call
  execs,         \* the executeTask call chains started by the scheduler
  runs,          \* number of executeAll calls since the last cleanup that
                 \* found no task execution in flight
  batch,         \* the tasks the caller registers, in order
  added,         \* number of addTask calls since the last cleanup
  bridge,        \* processManager.bridgeProcess is not null
  cleanup,       \* position of the cleanup call, number of calls in a row
  logging,       \* a listener that records every event is registered
  log,           \* the events that listener has recorded, in order
  pm             \* the tables and the calls of the process manager

vars == << nodes, parents, children, tasks, results, order, hitlCallback,
           maxParallel, runningTasks, sched, execs, runs, batch, added,
           bridge, cleanup, logging, log, pm >>

\* The variables of the orchestrator.
orchVars == << nodes, parents, children, tasks, results, order, hitlCallback,
               maxParallel, runningTasks, sched, execs, runs, batch, added,
               cleanup, logging, log >>

PENDING      == "pending"
RUNNING      == "running"
COMPLETED    == "completed"
FAILED       == "failed"
WAITING_HITL == "waiting_hitl"
RETRYING     == "retrying"

Settled == {"fulfilled", "rejected"}
Ended   == {"idle", "resolved", "rejected"}

EmptyMap == [x \in {} |-> 0]

MapSet(m, k, v) == [x \in (DOMAIN m) \cup {k} |-> IF x = k THEN v ELSE m[x]]

SeqHas(s, x) == \E i \in 1..Len(s) : s[i] = x

\* The fields of one GraphNode and of its TaskResult.  `links` names the
\* parents/children arrays the node holds (a fallback node holds the arrays
\* of the node it replaces).  startTime and endTime hold the position of
\* their `new Date()` call in the sequence of all such calls (endTime 0:
\* not set): a Date made by a later call is not earlier, and it is later
\* when a timer ran out between the two calls.  forRun is a history field:
\* the number of the executeAll call that follows the creation of a node
\* made by addTask, or that made the fallback node.  starts, startOks, okAt, approvedAt, origin and
\* replacedBy are history fields: number of startServer calls made for the
\* node (the number of the current attempt), number of them that succeeded,
\* the attempt of the last successful start and of the last approval by the
\* HITL callback (0: none), how the node was created, and the fallback node
\* substituted for it (0: none).  upAt and goneAt are the attempts of the
\* last getServerStatus answers of waitForCompletion that reported the
\* server running, and missing or not running (0: none).  delay is the
\* delay, in ms, of the last retry timer set for the node (0: none).
NewNode(task, linkId, how, at, run) ==
  [ task |-> task, status |-> PENDING, retryCount |-> 0, startTime |-> at,
    endTime |-> 0, error |-> FALSE, hitlApproved |-> "unset",
    server |-> FALSE, forRun |-> run,
    links |-> linkId, starts |-> 0, startOks |-> 0, okAt |-> 0,
    approvedAt |-> 0, origin |-> how, replacedBy |-> 0, upAt |-> 0,
    goneAt |-> 0, delay |-> 0 ]

\* `new Date()` with node table ns: one more than the number of Dates made
\* so far (one startTime per node, one endTime per ended node).
NewDate(ns) ==
  Len(ns) + Cardinality({n \in 1..Len(ns) : ns[n].endTime # 0}) + 1

\* `run` is the number of the executeAll call (0: none).
IdleSched ==
  [ pc |-> "idle", ready |-> << >>, awaiting |-> 0, winner |-> 0,
    qStart |-> 0, err |-> "none", iter |-> 0, started |-> FALSE,
    run |-> 0 ]

\* One emitted event: its name, the node of its task (0: none) and the
\* executeAll call it belongs to: the call itself, or the call that
\* dispatched the execution (0: none).
Ev(name, n, run) == [ ev |-> name, node |-> n, run |-> run ]

\* this.emit, with the recording listener registered or not.
Emit(lg, evs) == IF logging THEN lg \o evs ELSE lg

\* `row` is the number of cleanup calls made in a row, with no addTask and
\* no executeAll call since.
IdleCleanup == [ pc |-> "idle", row |-> 0 ]

\* No call of the caller is in progress.
CallerIdle == sched.pc \in Ended /\ cleanup.pc # "shutdown"

InitWith(batches, recording) ==
  /\ nodes = << >>
  /\ parents = << >>
  /\ children = << >>
  /\ tasks = EmptyMap
  /\ results = EmptyMap
  /\ order = << >>
  /\ hitlCallback = FALSE
  /\ maxParallel \in 1..MaxParallelBound
  /\ runningTasks = 0
  /\ sched = IdleSched
  /\ execs = << >>
  /\ runs = 0
  /\ batch \in batches
  /\ added = 0
  /\ bridge = FALSE
  /\ cleanup = IdleCleanup
  /\ logging = recording
  /\ log = << >>

\* A process manager as constructed, with or without a listener of its
\* 'error' event.  sd is the position of the shutdown call and `stops` the
\* stopServer calls it made; stop is the position of a stopServer call of
\* the caller; used and stopped are history: the server ids handed out, and
\* those whose stop succeeded.
NewManager(listening) ==
  [ servers |-> {}, pending |-> {}, shutdownInProgress |-> FALSE,
    errorListener |-> listening,
    sd |-> [pc |-> "idle", stops |-> [x \in {} |-> 0]],
    stop |-> [pc |-> "idle", pid |-> 0],
    used |-> {}, stopped |-> {} ]

Init == InitWith(Batches, FALSE) /\ pm = NewManager(FALSE)

\* ---------------------------------------------------------------- addTask
\* Variant: the TaskResult is not stored in the result map.
AddTaskNoResult(task) ==
  /\ CallerIdle
  /\ added < Len(batch)
  /\ task = batch[added + 1]
  /\ added' = added + 1
  /\ LET n == Len(nodes) + 1 IN
       /\ nodes' = Append(nodes, NewNode(task, Len(parents) + 1, "add",
                                          NewDate(nodes), runs + 1))
       /\ parents' = Append(parents, << >>)
       /\ children' = Append(children, << >>)
       /\ tasks' = MapSet(tasks, task.id, n)
       /\ order' = IF SeqHas(order, task.id) THEN order
                   ELSE Append(order, task.id)
  /\ cleanup' = [cleanup EXCEPT !.row = 0]
  /\ UNCHANGED << results, hitlCallback, maxParallel, runningTasks, sched,
                  execs, runs, batch, bridge, logging, log, pm >>

AddTask(task) ==
  /\ CallerIdle
  /\ added < Len(batch)
  /\ task = batch[added + 1]
  /\ added' = added + 1
  /\ LET n == Len(nodes) + 1 IN
       /\ nodes' = Append(nodes, NewNode(task, Len(parents) + 1, "add",
                                          NewDate(nodes), runs + 1))
       /\ parents' = Append(parents, << >>)
       /\ children' = Append(children, << >>)
       /\ tasks' = MapSet(tasks, task.id, n)
       /\ results' = MapSet(results, task.id, n)
       /\ order' = IF SeqHas(order, task.id) THEN order
                   ELSE Append(order, task.id)
  /\ cleanup' = [cleanup EXCEPT !.row = 0]
  /\ UNCHANGED << hitlCallback, maxParallel, runningTasks, sched, execs, runs,
                  batch, bridge, logging, log, pm >>

\* setHITLCallback, by a caller whose batch holds a task with a HITL gate.
SetHITLCallback ==
  /\ CallerIdle
  /\ ~hitlCallback
  /\ \E i \in 1..Len(batch) : batch[i].hitlGate
  /\ hitlCallback' = TRUE
  /\ UNCHANGED << nodes, parents, children, tasks, results, order,
                  maxParallel, runningTasks, sched, execs, runs, batch, added,
                  bridge, cleanup, logging, log, pm >>

\* ------------------------------------------------- buildDependencyGraph
\* The (node, dependency id) pairs in the order the two nested loops of
\* buildDependencyGraph visit them.
RECURSIVE DepEdges(_, _)
DepEdges(ids, tk) ==
  IF ids = << >> THEN << >>
  ELSE LET n == tk[Head(ids)]
           ds == nodes[n].task.deps
       IN [i \in 1..Len(ds) |-> [node |-> n, dep |-> ds[i]]]
          \o DepEdges(Tail(ids), tk)

\* Variant: a dependency that is not registered is skipped.
RECURSIVE BuildDependencyGraphSkipMissing(_, _, _)
BuildDependencyGraphSkipMissing(edges, par, chi) ==
  IF edges = << >> THEN [ok |-> TRUE, parents |-> par, children |-> chi]
  ELSE LET e == Head(edges) IN
       IF e.dep \notin DOMAIN tasks
       THEN BuildDependencyGraphSkipMissing(Tail(edges), par, chi)
       ELSE LET p == tasks[e.dep]
                pl == nodes[e.node].links
                cl == nodes[p].links
            IN BuildDependencyGraphSkipMissing(Tail(edges),
                 [par EXCEPT ![pl] = Append(@, p)],
                 [chi EXCEPT ![cl] = Append(@, e.node)])

\* Links made before a missing dependency is met stay in place.
RECURSIVE BuildDependencyGraph(_, _, _)
BuildDependencyGraph(edges, par, chi) ==
  IF edges = << >> THEN [ok |-> TRUE, parents |-> par, children |-> chi]
  ELSE LET e == Head(edges) IN
       IF e.dep \notin DOMAIN tasks
       THEN [ok |-> FALSE, parents |-> par, children |-> chi]
       ELSE LET p == tasks[e.dep]
                pl == nodes[e.node].links
                cl == nodes[p].links
            IN BuildDependencyGraph(Tail(edges),
                 [par EXCEPT ![pl] = Append(@, p)],
                 [chi EXCEPT ![cl] = Append(@, e.node)])

\* ------------------------------------------------- getReadyTasks
HasRequiredCapabilities(task) == TRUE

\* Variant: the parents' statuses are not consulted.
DepsCompleteUnchecked(ns, par, n) == TRUE

DepsComplete(ns, par, n) ==
  \A i \in 1..Len(par[ns[n].links]) :
     ns[par[ns[n].links][i]].status = COMPLETED

\* Variant: a FAILED task is taken up again.
IsReadyOrFailed(ns, par, n) ==
  /\ ns[n].status \in {PENDING, FAILED}
  /\ DepsComplete(ns, par, n)
  /\ HasRequiredCapabilities(ns[n].task)

IsReady(ns, par, n) ==
  /\ ns[n].status = PENDING
  /\ DepsComplete(ns, par, n)
  /\ HasRequiredCapabilities(ns[n].task)

RECURSIVE GetReadyTasks(_, _, _)
GetReadyTasks(ids, ns, par) ==
  IF ids = << >> THEN << >>
  ELSE (IF IsReady(ns, par, tasks[Head(ids)]) THEN << tasks[Head(ids)] >>
        ELSE << >>) \o GetReadyTasks(Tail(ids), ns, par)

\* ------------------------------------------------- hasIncompleteTasks
\* Variant: a PENDING result does not count as incomplete.
IncompleteNotPending == {RUNNING, WAITING_HITL, RETRYING}

Incomplete == {PENDING, RUNNING, WAITING_HITL, RETRYING}

\* Variant: a RUNNING result does not count as incomplete.
HasIncompleteTasksNotRunning(ns) ==
  \E id \in DOMAIN results :
     ns[results[id]].status \in {PENDING, WAITING_HITL, RETRYING}

HasIncompleteTasks(ns) ==
  \E id \in DOMAIN results : ns[results[id]].status \in Incomplete

\* ------------------------------------------------- executeAll
\* First promise of the run's executionQueue that is settled (0: none).
\* Promise.race on a queue that holds settled promises resolves with the
\* first of them in queue order.
FirstSettled(ex, qs) ==
  LET S == {i \in (qs + 1)..Len(ex) : ex[i].pc \in Settled}
  IN IF S = {} THEN 0 ELSE CHOOSE i \in S : \A j \in S : i <= j

\* executeTask up to its first await: the status is set to RUNNING and the
\* backend start is requested.
BeginExecution(ns, n) == [ns EXCEPT ![n].status = RUNNING,
                                    ![n].starts = @ + 1]

\* What follows the for loop: Promise.race on a non-empty queue, else the
\* 1000 ms poll, else back to the loop test (which is false).
AfterFor(ns, ex, rt, s) ==
  [ nodes |-> ns, execs |-> ex, rt |-> rt,
    sched |->
      IF Len(ex) > s.qStart
      THEN [s EXCEPT !.pc = "race", !.ready = << >>, !.awaiting = 0,
                     !.winner = FirstSettled(ex, s.qStart)]
      ELSE IF HasIncompleteTasks(ns)
      THEN [s EXCEPT !.pc = "sleep", !.ready = << >>, !.awaiting = 0]
      ELSE [s EXCEPT !.pc = "allSettled", !.ready = << >>, !.awaiting = 0] ]

\* Variant: a task without the parallel flag is not awaited.
RECURSIVE ForLoopNoAwait(_, _, _, _, _)
ForLoopNoAwait(ready, ns, ex, rt, s) ==
  IF ready = << >> \/ rt >= maxParallel THEN AfterFor(ns, ex, rt, s)
  ELSE LET n == Head(ready)
           ns2 == BeginExecution(ns, n)
           ex2 == Append(ex, [node |-> n, pc |-> "start", run |-> s.run])
       IN ForLoopNoAwait(Tail(ready), ns2, ex2, rt + 1, s)

\* The for loop over readyTasks from the node at the head of `ready`, up to
\* the next await of executeAll.
RECURSIVE ForLoop(_, _, _, _, _)
ForLoop(ready, ns, ex, rt, s) ==
  IF ready = << >> \/ rt >= maxParallel THEN AfterFor(ns, ex, rt, s)
  ELSE LET n == Head(ready)
           ns2 == BeginExecution(ns, n)
           ex2 == Append(ex, [node |-> n, pc |-> "start", run |-> s.run])
       IN IF ~ns[n].task.parallel
          THEN [ nodes |-> ns2, execs |-> ex2, rt |-> rt + 1,
                 sched |-> [s EXCEPT !.pc = "awaitTask",
                                     !.ready = Tail(ready),
                                     !.awaiting = Len(ex2)] ]
          ELSE ForLoop(Tail(ready), ns2, ex2, rt + 1, s)

\* One evaluation of the while test and, if it holds, of the loop body.
\* `iter` is the number of evaluations made in this run, modulo 2.
WhileLoop(ns, par, ex, rt, s0) ==
  LET s == [s0 EXCEPT !.iter = 1 - @] IN
  IF HasIncompleteTasks(ns)
  THEN ForLoop(GetReadyTasks(order, ns, par), ns, ex, rt, s)
  ELSE [ nodes |-> ns, execs |-> ex, rt |-> rt,
         sched |-> [s EXCEPT !.pc = "allSettled", !.ready = << >>,
                             !.awaiting = 0] ]

\* The task-started events of the executions that table ex holds beyond
\* those of table ex0, in dispatch order.
DispatchLog(ex0, ex) ==
  [ i \in 1..(Len(ex) - Len(ex0)) |->
      Ev("task-started", ex[Len(ex0) + i].node, ex[Len(ex0) + i].run) ]

\* Variant: orchestration-started is emitted after the first dispatch
\* round.
ExecuteAllLogStartedLast(run, dispatched) ==
  dispatched \o << Ev("orchestration-started", 0, run) >>

\* The events of executeAll up to its first await.
ExecuteAllLog(run, dispatched) ==
  << Ev("orchestration-started", 0, run) >> \o dispatched

\* The state after a run-to-suspension block of executeAll (the first, when
\* no call was in progress).  executeTask calls processManager.initialize,
\* which spawns the bridge process, whenever none exists.
SchedCommit(r) ==
  /\ nodes' = r.nodes
  /\ execs' = r.execs
  /\ runningTasks' = r.rt
  /\ sched' = r.sched
  /\ bridge' = (bridge \/ Len(r.execs) > Len(execs))
  /\ log' = Emit(log, IF sched.pc \in Ended
                      THEN ExecuteAllLog(r.sched.run,
                                         DispatchLog(execs, r.execs))
                      ELSE DispatchLog(execs, r.execs))

\* The call of executeAll, up to its first await (or to its throw).
ExecuteAll ==
  /\ CallerIdle
  /\ runs < MaxRuns
  /\ runs' = runs + 1
  /\ LET g == BuildDependencyGraph(DepEdges(order, tasks), parents, children)
         s0 == [IdleSched EXCEPT !.qStart = Len(execs), !.run = runs + 1]
         s1 == [s0 EXCEPT !.started = TRUE]
     IN /\ parents' = g.parents
        /\ children' = g.children
        /\ IF g.ok
           THEN SchedCommit(WhileLoop(nodes, g.parents, execs, runningTasks, s1))
           ELSE /\ sched' = [s0 EXCEPT !.pc = "rejected", !.err = "build"]
                /\ UNCHANGED << nodes, execs, runningTasks, bridge, log >>
  /\ cleanup' = [cleanup EXCEPT !.row = 0]
  /\ UNCHANGED << tasks, results, order, hitlCallback, maxParallel, batch,
                  added, logging, pm >>

\* `await taskPromise` of a task without the parallel flag returns or throws.
ResumeAwaitTask ==
  /\ sched.pc = "awaitTask"
  /\ execs[sched.awaiting].pc \in Settled
  /\ IF execs[sched.awaiting].pc = "rejected"
     THEN /\ sched' = [sched EXCEPT !.pc = "rejected", !.err = "task",
                                    !.ready = << >>, !.awaiting = 0]
          /\ UNCHANGED << nodes, execs, runningTasks, bridge, log >>
     ELSE SchedCommit(ForLoop(sched.ready, nodes, execs, runningTasks, sched))
  /\ UNCHANGED << parents, children, tasks, results, order, hitlCallback,
                  maxParallel, runs, batch, added, cleanup, logging, pm >>

\* `await Promise.race(executionQueue)` returns or throws.
ResumeRace ==
  /\ sched.pc = "race"
  /\ sched.winner # 0
  /\ IF execs[sched.winner].pc = "rejected"
     THEN /\ sched' = [sched EXCEPT !.pc = "rejected", !.err = "task",
                                    !.winner = 0]
          /\ UNCHANGED << nodes, execs, runningTasks, bridge, log >>
     ELSE SchedCommit(WhileLoop(nodes, parents, execs, runningTasks,
                                [sched EXCEPT !.winner = 0]))
  /\ UNCHANGED << parents, children, tasks, results, order, hitlCallback,
                  maxParallel, runs, batch, added, cleanup, logging, pm >>

AllSettled(ex, qs) == \A i \in (qs + 1)..Len(ex) : ex[i].pc \in Settled

\* `await Promise.allSettled(executionQueue)` returns; executeAll emits
\* orchestration-completed and resolves.
ResumeAllSettled ==
  /\ sched.pc = "allSettled"
  /\ AllSettled(execs, sched.qStart)
  /\ sched' = [sched EXCEPT !.pc = "resolved"]
  /\ log' = Emit(log, << Ev("orchestration-completed", 0, sched.run) >>)
  /\ UNCHANGED << nodes, parents, children, tasks, results, order,
                  hitlCallback, maxParallel, runningTasks, execs, runs, batch,
                  added, bridge, cleanup, logging, pm >>

\* A continuation of executeAll is queued as a microtask: no task of the
\* event loop (timer callback, answer of the bridge process) runs before it.
MicrotaskPending ==
  \/ sched.pc = "awaitTask" /\ execs[sched.awaiting].pc \in Settled
  \/ sched.pc = "race" /\ sched.winner # 0
  \/ sched.pc = "allSettled" /\ AllSettled(execs, sched.qStart)

\* The 1000 ms poll of an iteration that had nothing in the queue ends.
SleepDone ==
  /\ sched.pc = "sleep"
  /\ SchedCommit(WhileLoop(nodes, parents, execs, runningTasks, sched))
  /\ UNCHANGED << parents, children, tasks, results, order, hitlCallback,
                  maxParallel, runs, batch, added, cleanup, logging, pm >>

\* ------------------------------------------------- executeTask
\* Variant: one retry too many.
ShouldRetryOneMore(node) ==
  /\ node.task.maxRetries # 0
  /\ node.retryCount <= node.task.maxRetries

\* Variant: one retry too few.
ShouldRetryOneLess(node) ==
  /\ node.task.maxRetries # 0
  /\ node.retryCount + 1 < node.task.maxRetries

\* `task.maxRetries && result.retryCount < task.maxRetries`
ShouldRetry(node) ==
  /\ node.task.maxRetries # 0
  /\ node.retryCount < node.task.maxRetries

RetryDelayUnit == 1000

\* Variant: the delay is computed from retryCount as it was before the
\* increment.
RetryDelayBeforeIncrement(retryCount) == RetryDelayUnit * (retryCount - 1)

\* `1000 * result.retryCount`, evaluated after `result.retryCount++`.
RetryDelay(retryCount) == RetryDelayUnit * retryCount

\* The finally block of one executeTask call.
Finally(rt) == rt - 1

\* The catch block of executeTask for execution e, entered with node table
\* ns: retry (suspends at the backoff timer), else fallback substitution
\* (the recursive call runs to its first await and the finally block of the
\* caller runs at once, since the inner promise is returned, not awaited),
\* else FAILED and the promise rejects.
HandleFailure(ns, e) ==
  LET n == execs[e].node
      ns1 == [ns EXCEPT ![n].error = TRUE]
      base == [ nodes |-> ns1, tasks |-> tasks, results |-> results,
                order |-> order, execs |-> execs, rt |-> runningTasks,
                log |-> << >> ]
  IN IF ShouldRetry(ns1[n])
     THEN [base EXCEPT
             !.nodes = [ns1 EXCEPT ![n].retryCount = @ + 1,
                                   ![n].status = RETRYING,
                                   ![n].delay =
                                      RetryDelay(ns1[n].retryCount + 1)],
             !.execs = [execs EXCEPT ![e].pc = "backoff"],
             !.log = << Ev("task-retrying", n, execs[e].run) >>]
     ELSE IF ns1[n].task.fallback # {}
     THEN LET ft == CHOOSE t \in ns1[n].task.fallback : TRUE
              m == Len(ns1) + 1
              ns2 == Append([ns1 EXCEPT ![n].replacedBy = m],
                            NewNode(ft, ns1[n].links, "fallback",
                                    NewDate(ns1), runs))
          IN [base EXCEPT
                !.nodes = BeginExecution(ns2, m),
                !.tasks = MapSet(tasks, ft.id, m),
                !.results = MapSet(results, ft.id, m),
                !.order = IF SeqHas(order, ft.id) THEN order
                          ELSE Append(order, ft.id),
                !.execs = [execs EXCEPT ![e].node = m, ![e].pc = "start"],
                !.rt = Finally(runningTasks),
                !.log = << Ev("task-fallback", n, execs[e].run),
                           Ev("task-started", m, execs[e].run) >>]
     ELSE [base EXCEPT
             !.nodes = [ns1 EXCEPT ![n].status = FAILED,
                                   ![n].endTime = NewDate(ns1)],
             !.execs = [execs EXCEPT ![e].pc = "rejected"],
             !.rt = Finally(runningTasks),
             !.log = << Ev("task-failed", n, execs[e].run) >>]

\* A promise of the queue that settles while Promise.race is pending on a
\* queue without settled promises decides the race.
NoteSettled(s, ex, e) ==
  IF s.pc = "race" /\ s.winner = 0 /\ e > s.qStart /\ ex[e].pc \in Settled
  THEN [s EXCEPT !.winner = e] ELSE s

TaskCommit(r, e) ==
  /\ nodes' = r.nodes
  /\ tasks' = r.tasks
  /\ results' = r.results
  /\ order' = r.order
  /\ execs' = r.execs
  /\ runningTasks' = r.rt
  /\ sched' = NoteSettled(sched, r.execs, e)
  /\ bridge' = (bridge \/ r.execs[e].pc = "start")
  /\ log' = Emit(log, r.log)
  /\ UNCHANGED << parents, children, hitlCallback, maxParallel, runs, batch,
                  added, cleanup, logging, pm >>

Same(ns, ex, rt) ==
  [ nodes |-> ns, tasks |-> tasks, results |-> results, order |-> order,
    execs |-> ex, rt |-> rt, log |-> << >> ]

\* The outcome r of what follows the emission of the events `emitted`.
After(emitted, r) == [r EXCEPT !.log = emitted \o @]

\* Variant: the HITL gate is not checked.
StartServerOkNoGate(e) ==
  /\ execs[e].pc = "start"
  /\ LET n == execs[e].node
         ns1 == [nodes EXCEPT ![n].server = TRUE, ![n].startOks = @ + 1,
                              ![n].okAt = nodes[n].starts]
     IN TaskCommit(Same(ns1, [execs EXCEPT ![e].pc = "wait"],
                        runningTasks), e)

\* processManager.startServer resolves: serverId and port are recorded; a
\* task with hitlGate goes to WAITING_HITL and awaits the callback, or
\* throws at once when no callback is set.
StartServerOk(e) ==
  /\ execs[e].pc = "start"
  /\ LET n == execs[e].node
         ns1 == [nodes EXCEPT ![n].server = TRUE, ![n].startOks = @ + 1,
                              ![n].okAt = nodes[n].starts]
     IN IF nodes[n].task.hitlGate
        THEN LET ns2 == [ns1 EXCEPT ![n].status = WAITING_HITL]
                 required == << Ev("hitl-required", n, execs[e].run) >>
             IN IF hitlCallback
                THEN TaskCommit(After(required,
                                      Same(ns2, [execs EXCEPT ![e].pc = "hitl"],
                                           runningTasks)), e)
                ELSE TaskCommit(After(required, HandleFailure(ns2, e)), e)
        ELSE TaskCommit(Same(ns1, [execs EXCEPT ![e].pc = "wait"],
                             runningTasks), e)

\* Variant: the HITL gate is entered before the backend start is awaited.
StartServerFailGated(e) ==
  /\ execs[e].pc = "start"
  /\ LET n == execs[e].node IN
     IF nodes[n].task.hitlGate
     THEN TaskCommit(HandleFailure([nodes EXCEPT ![n].status = WAITING_HITL],
                                   e), e)
     ELSE TaskCommit(HandleFailure(nodes, e), e)

\* processManager.initialize or startServer rejects.
StartServerFail(e) ==
  /\ execs[e].pc = "start"
  /\ TaskCommit(HandleFailure(nodes, e), e)

\* Variant: the status is not set back to RUNNING after the approval.
HitlApproveNoResume(e) ==
  /\ execs[e].pc = "hitl"
  /\ LET n == execs[e].node IN
     TaskCommit(Same([nodes EXCEPT ![n].hitlApproved = "yes",
                                   ![n].approvedAt = nodes[n].starts],
                     [execs EXCEPT ![e].pc = "wait"], runningTasks), e)

\* The HITL callback resolves with true.
HitlApprove(e) ==
  /\ execs[e].pc = "hitl"
  /\ LET n == execs[e].node IN
     TaskCommit(Same([nodes EXCEPT ![n].hitlApproved = "yes",
                                   ![n].approvedAt = nodes[n].starts,
                                   ![n].status = RUNNING],
                     [execs EXCEPT ![e].pc = "wait"], runningTasks), e)

\* Variant: the answer of the HITL callback is stored but not acted on.
HitlRejectIgnored(e) ==
  /\ execs[e].pc = "hitl"
  /\ LET n == execs[e].node IN
     TaskCommit(Same([nodes EXCEPT ![n].hitlApproved = "no",
                                   ![n].status = RUNNING],
                     [execs EXCEPT ![e].pc = "wait"], runningTasks), e)

\* The HITL callback resolves with false.
HitlReject(e) ==
  /\ execs[e].pc = "hitl"
  /\ LET n == execs[e].node IN
     TaskCommit(HandleFailure([nodes EXCEPT ![n].hitlApproved = "no"], e), e)

\* Variant: endTime is not recorded on completion.
WaitCompletedNoEndTime(e) ==
  /\ execs[e].pc = "wait"
  /\ ~MicrotaskPending
  /\ LET n == execs[e].node IN
     TaskCommit(After(<< Ev("task-completed", n, execs[e].run) >>,
                Same([nodes EXCEPT ![n].status = COMPLETED,
                                   ![n].upAt = nodes[n].starts],
                     [execs EXCEPT ![e].pc = "fulfilled"],
                     Finally(runningTasks))), e)

\* waitForCompletion: the timer fires and getServerStatus reports the
\* server running; the task is COMPLETED and the promise is fulfilled.
WaitCompleted(e) ==
  /\ execs[e].pc = "wait"
  /\ ~MicrotaskPending
  /\ LET n == execs[e].node IN
     TaskCommit(After(<< Ev("task-completed", n, execs[e].run) >>,
                Same([nodes EXCEPT ![n].status = COMPLETED,
                                   ![n].endTime = NewDate(nodes),
                                   ![n].upAt = nodes[n].starts],
                     [execs EXCEPT ![e].pc = "fulfilled"],
                     Finally(runningTasks))), e)

\* Variant: the answer of getServerStatus is not looked at.
WaitStoppedCompletes(e) ==
  /\ execs[e].pc = "wait"
  /\ ~MicrotaskPending
  /\ LET n == execs[e].node IN
     TaskCommit(After(<< Ev("task-completed", n, execs[e].run) >>,
                Same([nodes EXCEPT ![n].status = COMPLETED,
                                   ![n].endTime = NewDate(nodes),
                                   ![n].goneAt = nodes[n].starts],
                     [execs EXCEPT ![e].pc = "fulfilled"],
                     Finally(runningTasks))), e)

\* waitForCompletion: the timer fires and getServerStatus returns null (the
\* bridge reports not_found, or the request fails) or a status that is not
\* running; waitForCompletion throws.
WaitStopped(e) ==
  /\ execs[e].pc = "wait"
  /\ ~MicrotaskPending
  /\ LET n == execs[e].node IN
     TaskCommit(HandleFailure([nodes EXCEPT ![n].goneAt = nodes[n].starts],
                              e), e)

\* The retry delay ends: executeTask is called again on the same node, and
\* the finally block of the calling frame runs as soon as that call has
\* reached its first await.
BackoffDone(e) ==
  /\ execs[e].pc = "backoff"
  /\ ~MicrotaskPending
  /\ TaskCommit(After(<< Ev("task-started", execs[e].node, execs[e].run) >>,
                      Same(BeginExecution(nodes, execs[e].node),
                           [execs EXCEPT ![e].pc = "start"],
                           Finally(runningTasks))), e)

TaskStep(e) ==
  /\ e \in 1..Len(execs)
  /\ ~MicrotaskPending
  /\ \/ StartServerOk(e)
     \/ StartServerFail(e)
     \/ HitlApprove(e)
     \/ HitlReject(e)
     \/ WaitCompleted(e)
     \/ WaitStopped(e)
     \/ BackoffDone(e)

\* ------------------------------------------------- listeners
\* EventEmitter.emit calls the listeners synchronously and lets what they
\* throw through.  A listener of task-completed throws: the emit is inside
\* the try block, after the status and endTime assignments, and the throw
\* is caught by the catch block of executeTask.
TaskCompletedListenerThrows(e) ==
  /\ execs[e].pc = "wait"
  /\ LET n == execs[e].node
         ns1 == [nodes EXCEPT ![n].status = COMPLETED,
                              ![n].endTime = NewDate(nodes),
                              ![n].upAt = nodes[n].starts]
     IN TaskCommit(After(<< Ev("task-completed", n, execs[e].run) >>,
                         HandleFailure(ns1, e)), e)

\* A listener of hitl-required throws: the status is WAITING_HITL and the
\* HITL callback is not called.
HitlRequiredListenerThrows(e) ==
  /\ execs[e].pc = "start"
  /\ nodes[execs[e].node].task.hitlGate
  /\ hitlCallback
  /\ LET n == execs[e].node
         ns1 == [nodes EXCEPT ![n].server = TRUE, ![n].startOks = @ + 1,
                              ![n].okAt = nodes[n].starts,
                              ![n].status = WAITING_HITL]
     IN TaskCommit(After(<< Ev("hitl-required", n, execs[e].run) >>,
                         HandleFailure(ns1, e)), e)

\* The backend answers execution e and a listener throws from the event
\* emitted on that answer.
ListenerThrows(e) ==
  /\ e \in 1..Len(execs)
  /\ ~MicrotaskPending
  /\ \/ TaskCompletedListenerThrows(e)
     \/ HitlRequiredListenerThrows(e)

\* ------------------------------------------------- cleanup
\* What the backend does while NarupaProcessManager.shutdown runs: every
\* server stops and the bridge answers, a stopServer call fails, or the
\* bridge does not answer (the request times out).
ShutdownOutcomes == {"stopped", "stopFailed", "noAnswer"}

\* Variant: shutdown lets the error of a failed step through.
ShutdownRethrows(outcome) ==
  IF outcome = "stopped" THEN "returned" ELSE "thrown"

\* NarupaProcessManager.shutdown with a bridge process: the catch block
\* swallows every error of the try block and the finally block always runs.
Shutdown(outcome) == "returned"

\* The statements of cleanup that follow `await processManager.shutdown()`.
\* When no execution is in flight nothing refers to the nodes and promises
\* made so far, nor to the executeAll calls that have ended, any more: they
\* are dropped from the state, and the caller may register its batch again.
CleanupReturn ==
  /\ tasks' = EmptyMap
  /\ results' = EmptyMap
  /\ order' = << >>
  /\ runningTasks' = 0
  /\ IF \A e \in 1..Len(execs) : execs[e].pc \in Settled
     THEN /\ nodes' = << >>
          /\ parents' = << >>
          /\ children' = << >>
          /\ execs' = << >>
          /\ sched' = IdleSched
          /\ runs' = 0
          /\ added' = 0
          /\ log' = << >>
     ELSE /\ UNCHANGED << nodes, parents, children, execs, sched, runs,
                          added >>
          /\ log' = Emit(log, << Ev("cleanup-completed", 0, 0) >>)

\* The call of cleanup.  Without a bridge process shutdown returns at once
\* and the call ends; with one, the call is suspended until shutdown ends.
Cleanup ==
  /\ CallerIdle
  /\ cleanup.row < MaxCleanups
  /\ IF bridge
     THEN /\ cleanup' = [cleanup EXCEPT !.pc = "shutdown", !.row = @ + 1]
          /\ UNCHANGED << nodes, parents, children, execs, tasks, results,
                          order, runningTasks, sched, runs, added, log >>
     ELSE /\ cleanup' = [cleanup EXCEPT !.pc = "idle", !.row = @ + 1]
          /\ CleanupReturn
  /\ UNCHANGED << hitlCallback, maxParallel, batch, bridge, logging, pm >>

\* shutdown ends (the bridge process reference is null) and cleanup
\* resumes.
ShutdownDone ==
  /\ cleanup.pc = "shutdown"
  /\ \E outcome \in ShutdownOutcomes :
        IF Shutdown(outcome) = "returned"
        THEN /\ cleanup' = [cleanup EXCEPT !.pc = "idle"]
             /\ CleanupReturn
        ELSE /\ cleanup' = [cleanup EXCEPT !.pc = "rejected"]
             /\ UNCHANGED << nodes, parents, children, execs, tasks, results,
                             order, runningTasks, sched, runs, added, log >>
  /\ bridge' = FALSE
  /\ UNCHANGED << hitlCallback, maxParallel, batch, logging, pm >>

\* ------------------------------------------------- getStatistics
CountStatus(S) ==
  Cardinality({id \in DOMAIN results : nodes[results[id]].status \in S})

\* Variant: only RUNNING results are counted as running.
GetStatisticsRunningOnly ==
  [ total |-> Cardinality(DOMAIN results),
    completed |-> CountStatus({COMPLETED}),
    failed |-> CountStatus({FAILED}),
    pending |-> CountStatus({PENDING}),
    running |-> CountStatus({RUNNING}) ]

GetStatistics ==
  [ total |-> Cardinality(DOMAIN results),
    completed |-> CountStatus({COMPLETED}),
    failed |-> CountStatus({FAILED}),
    pending |-> CountStatus({PENDING}),
    running |-> CountStatus({RUNNING, RETRYING, WAITING_HITL}) ]

\* Each executeAll call dispatches each task of the batch at most once.
MaxExecs == MaxBatch * MaxRuns

Next ==
  \/ \E i \in 1..Len(batch) : AddTask(batch[i])
  \/ SetHITLCallback
  \/ ExecuteAll
  \/ ResumeAwaitTask
  \/ ResumeRace
  \/ ResumeAllSettled
  \/ SleepDone
  \/ \E e \in 1..MaxExecs : TaskStep(e)
  \/ Cleanup
  \/ ShutdownDone

Spec == Init /\ [][Next]_vars

\* The event loop runs every queued continuation, the backend answers every
\* request and every timer fires (unless a microtask is pending); the caller
\* is under no obligation.
Fairness ==
  /\ WF_vars(ResumeAwaitTask)
  /\ WF_vars(ResumeRace)
  /\ WF_vars(ResumeAllSettled)
  /\ WF_vars(SleepDone)
  /\ \A e \in 1..MaxExecs : WF_vars(TaskStep(e))
  /\ WF_vars(ShutdownDone)

FairSpec == Spec /\ Fairness

\* The orchestrator with a listener that records every event, for every
\* batch but the scheduler batches and the duplicate batches.
EventBatches ==
  ExecutorBatches \cup OtherBatches \cup GateBatches \cup MixedBatches
    \cup SerialBatches \cup CyclicBatches

InitEvents == InitWith(EventBatches, TRUE) /\ pm = NewManager(FALSE)

EventSpec == InitEvents /\ [][Next]_vars

\* The orchestrator with listeners that may throw.
NextWithListeners ==
  \/ Next
  \/ \E e \in 1..MaxExecs : ListenerThrows(e)

ListenerSpec == Init /\ [][NextWithListeners]_vars

\* ------------------------------------------------- NarupaProcessManager
\* The process manager on its own: a caller starts servers, stops them one
\* by one and shuts the manager down, one call at a time, and the bridge
\* process answers each request, reports an error, or does not answer
\* before the request times out.
ServerIds == 1..MaxServers

Req(method, pid) == [ method |-> method, pid |-> pid ]

Answers == {"ok", "error", "timeout"}

\* No call of the caller of the manager is in progress.
ManagerIdle ==
  /\ pm.sd.pc \in {"idle", "returned"}
  /\ pm.stop.pc \in {"idle", "returned", "thrown"}

\* startServer: the bridge process is spawned when there is none, and the
\* start_server request is sent.
PmStartServer(pid) ==
  /\ ManagerIdle
  /\ pid \notin pm.used
  /\ bridge' = TRUE
  /\ pm' = [pm EXCEPT !.pending = @ \cup {Req("start_server", pid)},
                      !.used = @ \cup {pid}]
  /\ UNCHANGED orchVars

\* handleRpcResponse for a start_server request: the server is entered in
\* the table.
PmStartServerAnswer(pid) ==
  /\ bridge
  /\ Req("start_server", pid) \in pm.pending
  /\ pm' = [pm EXCEPT !.pending = @ \ {Req("start_server", pid)},
                      !.servers = @ \cup {pid}]
  /\ UNCHANGED << orchVars, bridge >>

\* The 'exit' handler of the bridge process, for an exit outside shutdown:
\* the reference is dropped and the server table cleared.  The 'error'
\* event it emits needs a listener, or the exception ends the program.
PmBridgeExit ==
  /\ bridge
  /\ ManagerIdle
  /\ pm.errorListener
  /\ bridge' = FALSE
  /\ pm' = [pm EXCEPT !.servers = {}]
  /\ UNCHANGED orchVars

\* The timer of a request the bridge process never answered runs out.
PmRequestTimeout(pid) ==
  /\ ~bridge
  /\ Req("start_server", pid) \in pm.pending
  /\ pm' = [pm EXCEPT !.pending = @ \ {Req("start_server", pid)}]
  /\ UNCHANGED << orchVars, bridge >>

\* stopServer(pid) called by the caller, for an id it was given: throws at
\* once when the id is not in the server table, else sends stop_server.
PmStopServer(pid) ==
  /\ ManagerIdle
  /\ pid \in pm.used
  /\ Req("start_server", pid) \notin pm.pending
  /\ IF pid \notin pm.servers
     THEN pm' = [pm EXCEPT !.stop = [pc |-> "thrown", pid |-> pid]]
     ELSE pm' = [pm EXCEPT !.stop = [pc |-> "awaiting", pid |-> pid],
                           !.pending = @ \cup {Req("stop_server", pid)}]
  /\ UNCHANGED << orchVars, bridge >>

\* The stop_server request of the caller's stopServer call is answered, or
\* times out.
PmStopServerAnswer(answer) ==
  /\ pm.stop.pc = "awaiting"
  /\ LET pid == pm.stop.pid
         p1 == [pm EXCEPT !.pending = @ \ {Req("stop_server", pid)}]
     IN pm' = IF answer = "ok"
              THEN [p1 EXCEPT !.servers = @ \ {pid},
                              !.stopped = @ \cup {pid},
                              !.stop.pc = "returned"]
              ELSE [p1 EXCEPT !.stop.pc = "thrown"]
  /\ UNCHANGED << orchVars, bridge >>

\* The finally block of shutdown.
ShutdownFinally(p) ==
  [p EXCEPT !.servers = {}, !.pending = {}, !.shutdownInProgress = FALSE,
            !.sd.pc = "returned"]

\* The shutdown_all request that follows stopAllServers.
SendShutdownAll(p) ==
  [p EXCEPT !.sd.pc = "shutdownAll",
            !.pending = @ \cup {Req("shutdown_all", 0)}]

\* shutdown(): returns at once without a bridge process; else calls
\* stopAllServers, which calls stopServer for every id of the table.
PmShutdown ==
  /\ ManagerIdle
  /\ IF ~bridge
     THEN pm' = [pm EXCEPT !.sd = [pc |-> "returned",
                                   stops |-> [x \in {} |-> 0]]]
     ELSE LET p1 == [pm EXCEPT
                       !.shutdownInProgress = TRUE,
                       !.sd = [pc |-> "stopping",
                               stops |-> [x \in pm.servers |-> "pending"]],
                       !.pending = @ \cup { Req("stop_server", x) :
                                               x \in pm.servers }]
          IN pm' = IF pm.servers = {} THEN SendShutdownAll(p1) ELSE p1
  /\ UNCHANGED << orchVars, bridge >>

\* A stop_server request of stopAllServers is answered, or times out.  On
\* a failure the catch handler emits 'error': with a listener the failure
\* is passed over; without one emit throws, Promise.all rejects and
\* shutdown goes to its catch and finally blocks.  When every stopServer
\* call has ended shutdown_all is sent.
PmShutdownStopAnswer(pid, answer) ==
  /\ pm.sd.pc = "stopping"
  /\ pid \in DOMAIN pm.sd.stops
  /\ pm.sd.stops[pid] = "pending"
  /\ LET p1 == [pm EXCEPT !.pending = @ \ {Req("stop_server", pid)}]
         p2 == IF answer = "ok"
               THEN [p1 EXCEPT !.servers = @ \ {pid},
                               !.stopped = @ \cup {pid},
                               !.sd.stops[pid] = "ok"]
               ELSE [p1 EXCEPT !.sd.stops[pid] = "failed"]
     IN IF answer # "ok" /\ ~pm.errorListener
        THEN pm' = ShutdownFinally(p2) /\ bridge' = FALSE
        ELSE /\ pm' = IF \A x \in DOMAIN p2.sd.stops :
                            p2.sd.stops[x] # "pending"
                      THEN SendShutdownAll(p2) ELSE p2
             /\ UNCHANGED bridge
  /\ UNCHANGED orchVars

\* The shutdown_all request is answered, or times out: the bridge process
\* exits or is killed, and the finally block runs.
PmShutdownAllAnswer(answer) ==
  /\ pm.sd.pc = "shutdownAll"
  /\ pm' = ShutdownFinally(pm)
  /\ bridge' = FALSE
  /\ UNCHANGED orchVars

NextManager ==
  \/ \E pid \in ServerIds : PmStartServer(pid)
  \/ \E pid \in ServerIds : PmStartServerAnswer(pid)
  \/ PmBridgeExit
  \/ \E pid \in ServerIds : PmRequestTimeout(pid)
  \/ \E pid \in ServerIds : PmStopServer(pid)
  \/ \E answer \in Answers : PmStopServerAnswer(answer)
  \/ PmShutdown
  \/ \E pid \in ServerIds, answer \in Answers :
        PmShutdownStopAnswer(pid, answer)
  \/ \E answer \in Answers : PmShutdownAllAnswer(answer)

InitManager ==
  /\ InitWith({NoDeps}, FALSE)
  /\ pm \in { NewManager(listening) : listening \in BOOLEAN }

ManagerSpec == InitManager /\ [][NextManager]_vars

\* ====================================================== properties

NodeIds == 1..Len(nodes)

InFlight(e) == execs[e].pc \notin Settled

RunEnded == sched.pc \in {"resolved", "rejected"}

ParentsOf(n) == parents[nodes[n].links]

ChildrenOf(n) == children[nodes[n].links]

\* Node n takes status RUNNING in this step (it is new, or had another
\* status).
BecomesRunning(n) ==
  /\ nodes'[n].status = RUNNING
  /\ n \in NodeIds => nodes[n].status # RUNNING

C2_CeilingRespected ==
  sched.pc \notin Ended =>
    Cardinality({e \in (sched.qStart + 1)..Len(execs) : InFlight(e)})
      <= maxParallel

\* C3: executeAll never rejects because of a task-level failure.
C3_NeverThrowsOnTaskFailure ==
  ~(sched.pc = "rejected" /\ sched.err = "task")

\* Two independent tasks without options are registered, one has FAILED
\* and the backend never failed the other.
TwoIndependentOneFails ==
  /\ DOMAIN results = {"A", "B"}
  /\ \A id \in {"A", "B"} :
        LET t == nodes[results[id]].task IN
        t.deps = NoDeps /\ t.fallback = {} /\ t.maxRetries = 0 /\ ~t.hitlGate
  /\ \E x, y \in {"A", "B"} :
        /\ x # y
        /\ nodes[results[x]].status = FAILED
        /\ ~nodes[results[y]].error

\* C4: two independent tasks, one succeeding and one failing: the run ends
\* with completed = 1 and failed = 1.
C4_IndependentTaskStillRuns ==
  (RunEnded /\ runs = 1 /\ TwoIndependentOneFails) =>
     (GetStatistics.completed = 1 /\ GetStatistics.failed = 1)

\* In the first run, with no fallback configured anywhere, some task has
\* ended FAILED, no execution is in flight and no task is ready.
FailedInFirstRun ==
  /\ runs = 1
  /\ sched.pc \notin Ended
  /\ \A n \in NodeIds : nodes[n].task.fallback = {}
  /\ \E n \in NodeIds : nodes[n].status = FAILED
  /\ AllSettled(execs, 0)
  /\ GetReadyTasks(order, nodes, parents) = << >>

DependentsPending ==
  \A n \in NodeIds :
     nodes[n].status = FAILED =>
       \A i \in 1..Len(ChildrenOf(n)) :
          nodes[ChildrenOf(n)[i]].status = PENDING

\* C5: when a task ends FAILED with no fallback, executeAll terminates, the
\* dependents of the failed task still PENDING.
C5_RunEndsAfterFailure ==
  [](FailedInFirstRun => <>(RunEnded /\ DependentsPending))

\* C6: retryCount never exceeds maxRetries, and at most maxRetries + 1
\* backend starts are made on a node.
C6_RetryBound ==
  \A n \in NodeIds :
     /\ nodes[n].retryCount <= nodes[n].task.maxRetries
     /\ nodes[n].starts <= nodes[n].task.maxRetries + 1

\* C6 witness: a node with retries has used all its starts and is FAILED or
\* replaced by its fallback.
C6_Witness ==
  \E n \in NodeIds :
     /\ nodes[n].task.maxRetries >= 1
     /\ nodes[n].starts = nodes[n].task.maxRetries + 1
     /\ nodes[n].status = FAILED \/ nodes[n].replacedBy # 0

\* Execution e is over, on a node without fallback whose every backend
\* start failed.
EndedAllStartsFailed(e) ==
  /\ execs[e].pc \in Settled
  /\ nodes[execs[e].node].task.fallback = {}
  /\ nodes[execs[e].node].startOks = 0

C8_OriginalFailed ==
  \A n \in NodeIds : nodes[n].replacedBy # 0 => nodes[n].status = FAILED

\* C9: after a substitution the fallback node is fresh and is among the
\* parents of every dependent of the original.
C9_FallbackReachable ==
  \A n \in NodeIds :
     nodes[n].replacedBy # 0 =>
       LET m == nodes[n].replacedBy IN
       /\ nodes[m].retryCount = 0
       /\ Cardinality({k \in NodeIds : nodes[k].origin = "fallback"
                          /\ nodes[k].task.id = nodes[m].task.id}) = 1
       /\ \A i \in 1..Len(ChildrenOf(n)) :
             SeqHas(ParentsOf(ChildrenOf(n)[i]), m)

Terminal == {COMPLETED, FAILED}

\* In the first run a fallback was substituted, and the fallback and every
\* other node that was not replaced are COMPLETED or FAILED.
SubstitutedAndAllTerminal ==
  /\ runs = 1
  /\ sched.pc \notin Ended
  /\ \E n \in NodeIds : nodes[n].replacedBy # 0
  /\ \A n \in NodeIds : nodes[n].replacedBy = 0 => nodes[n].status \in Terminal

\* C10: once a task is replaced by its fallback and the fallback and all
\* other tasks are terminal, executeAll terminates.
C10_RunEndsAfterFallback ==
  [](SubstitutedAndAllTerminal => <>RunEnded)

\* C11: a task with hitlGate is COMPLETED only if, in the attempt that
\* completed, the backend start succeeded and the HITL callback then
\* returned true (its hitlApproved is true); the callback is awaited only
\* after the start of the current attempt succeeded; a task without
\* hitlGate never has hitlApproved set.
C11_CompletedOnlyIfApproved ==
  /\ \A n \in NodeIds :
        /\ (nodes[n].task.hitlGate /\ nodes[n].status = COMPLETED) =>
              /\ nodes[n].hitlApproved = "yes"
              /\ nodes[n].approvedAt = nodes[n].starts
              /\ nodes[n].okAt = nodes[n].starts
        /\ ~nodes[n].task.hitlGate => nodes[n].hitlApproved = "unset"
  /\ \A e \in 1..Len(execs) :
        execs[e].pc = "hitl" =>
          /\ nodes[execs[e].node].okAt = nodes[execs[e].node].starts
          /\ nodes[execs[e].node].server

\* C11 witness: a task with hitlGate is COMPLETED by its second attempt,
\* approved in that attempt, after the callback returned false in the first.
C11_Witness ==
  \E n \in NodeIds :
     /\ nodes[n].task.hitlGate
     /\ nodes[n].status = COMPLETED
     /\ nodes[n].starts = 2 /\ nodes[n].startOks = 2
     /\ nodes[n].approvedAt = 2

\* Node n holds a task with hitlGate, without retries and without fallback,
\* and the HITL callback has returned false for it.
DeniedNoRetryNoFallback(n) ==
  /\ nodes[n].task.hitlGate
  /\ nodes[n].task.maxRetries = 0
  /\ nodes[n].task.fallback = {}
  /\ nodes[n].hitlApproved = "no"

\* C12: a task with hitlGate, maxRetries 0 and no fallback whose HITL
\* callback returned false is FAILED with hitlApproved = false after exactly
\* one start attempt, and its execution has ended by rejecting.
C12_DeniedTaskFails ==
  /\ \A n \in NodeIds :
        DeniedNoRetryNoFallback(n) =>
          /\ nodes[n].status = FAILED
          /\ nodes[n].endTime # 0
          /\ nodes[n].starts = 1
          /\ nodes[n].retryCount = 0
  /\ \A e \in 1..Len(execs) :
        DeniedNoRetryNoFallback(execs[e].node) => execs[e].pc = "rejected"

\* C12 witness: the scenario has happened and the run has ended.
C12_Witness ==
  /\ RunEnded
  /\ \E e \in 1..Len(execs) :
        /\ DeniedNoRetryNoFallback(execs[e].node)
        /\ nodes[execs[e].node].status = FAILED
        /\ nodes[execs[e].node].task.id \in DOMAIN results
        /\ results[nodes[execs[e].node].task.id] = execs[e].node

\* The backend start awaited by execution e fails in this step.
StartFails(e) ==
  /\ execs[e].pc = "start"
  /\ execs'[e] # execs[e]
  /\ nodes'[execs[e].node].startOks = nodes[execs[e].node].startOks

\* C13: a status is WAITING_HITL only for a task with hitlGate whose
\* backend start of the current attempt succeeded (server recorded); when
\* the backend start fails the attempt goes to failure handling (retry,
\* fallback or FAILED) with the status not WAITING_HITL and without the
\* HITL callback being awaited.
C13_WaitingOnlyAfterStart ==
  [][/\ \A n \in 1..Len(nodes') :
          nodes'[n].status = WAITING_HITL =>
            /\ nodes'[n].task.hitlGate
            /\ nodes'[n].server
            /\ nodes'[n].okAt = nodes'[n].starts
     /\ \A e \in 1..Len(execs) :
          StartFails(e) =>
            LET n == execs[e].node IN
            /\ nodes'[n].error
            /\ nodes'[n].status \in {RETRYING, FAILED, RUNNING}
            /\ nodes'[n].status = RUNNING => nodes'[n].replacedBy # 0
            /\ nodes'[n].hitlApproved = nodes[n].hitlApproved
            /\ execs'[e].pc \in {"backoff", "rejected", "start"}]_vars

\* C13 witness: a task with hitlGate was WAITING_HITL and denied in its
\* first attempt, and the backend start of its second attempt has failed.
C13_Witness ==
  \E n \in NodeIds :
     /\ nodes[n].task.hitlGate
     /\ nodes[n].okAt = 1 /\ nodes[n].hitlApproved = "no"
     /\ nodes[n].starts = 2 /\ nodes[n].retryCount = 2
     /\ nodes[n].status = RETRYING

\* Execution e is suspended on the HITL callback while some task is ready
\* and the in-flight counter is below the ceiling.
GateWaitsWhileTaskFits(e) ==
  /\ execs[e].pc = "hitl"
  /\ nodes[execs[e].node].status = WAITING_HITL
  /\ sched.pc \notin Ended
  /\ runningTasks < maxParallel
  /\ GetReadyTasks(order, nodes, parents) # << >>

\* C14: while a task is suspended in WAITING_HITL and another task is ready
\* and fits under the ceiling, executeAll is not suspended on the promise of
\* the waiting task (the ready task can be dispatched and complete before
\* the approval decision), whatever the waiting task's `parallel` flag.
C14_GateDoesNotBlockScheduler ==
  \A e \in 1..Len(execs) :
     GateWaitsWhileTaskFits(e) =>
       ~(sched.pc = "awaitTask" /\ sched.awaiting = e)

\* C15: in every state getStatistics() gives
\* total = completed + failed + pending + running, total being the number
\* of results and running the number of RUNNING, RETRYING and WAITING_HITL
\* results.
C15_StatisticsAddUp ==
  LET st == GetStatistics IN
  /\ st.total = st.completed + st.failed + st.pending + st.running
  /\ st.total = Cardinality(DOMAIN results)
  /\ st.running =
       Cardinality({id \in DOMAIN results :
                      \/ nodes[results[id]].status = RUNNING
                      \/ nodes[results[id]].status = RETRYING
                      \/ nodes[results[id]].status = WAITING_HITL})

\* C15 witness: during a run, after a fallback substitution, with a result
\* in each of the states RETRYING or WAITING_HITL, PENDING and RUNNING.
C15_Witness ==
  /\ sched.pc \notin Ended
  /\ \E n \in NodeIds : nodes[n].replacedBy # 0
  /\ \E id \in DOMAIN results :
        nodes[results[id]].status \in {RETRYING, WAITING_HITL}
  /\ GetStatistics.pending >= 1
  /\ GetStatistics.running >= 2

\* A call of cleanup returns in this step.
CleanupReturns ==
  /\ cleanup'.pc = "idle"
  /\ cleanup.pc = "shutdown" \/ cleanup'.row = cleanup.row + 1

\* No task, no result, statistics all zero, in-flight counter 0.
EmptyState ==
  /\ tasks = EmptyMap
  /\ results = EmptyMap
  /\ GetStatistics = [ total |-> 0, completed |-> 0, failed |-> 0,
                       pending |-> 0, running |-> 0 ]
  /\ runningTasks = 0

\* C16: no call of cleanup ends with an error, whatever the backend does
\* during shutdown, and when a call of cleanup returns (the first, or one
\* that follows another directly) there is no task, no result, the
\* statistics are all zero and the in-flight counter is 0.
C16_CleanupIdempotent ==
  [][/\ cleanup'.pc # "rejected"
     /\ CleanupReturns => EmptyState']_vars

\* C16 witness: cleanup has returned twice in a row, after a run.
C16_Witness ==
  /\ cleanup.row = 2
  /\ cleanup.pc = "idle"
  /\ execs # << >>
  /\ EmptyState

\* C17: from the return of cleanup until the caller registers a task or
\* calls executeAll, the task map and the result map are empty and the
\* in-flight counter is 0: no task execution of the earlier run changes
\* them.
C17_NothingSurvivesCleanup ==
  (cleanup.pc = "idle" /\ cleanup.row >= 1) =>
     /\ tasks = EmptyMap
     /\ results = EmptyMap
     /\ runningTasks = 0

\* C18: an addTask call for an id that is already registered is rejected:
\* the registered node and its TaskResult stay as they are.
C18_DuplicateIdRejected ==
  [][(added' = added + 1 /\ batch[added'].id \in DOMAIN tasks) =>
       /\ tasks' = tasks
       /\ results' = results
       /\ nodes' = nodes]_vars

\* Some registered task declares a dependency id that is not registered.
MissingDependency ==
  \E id \in DOMAIN tasks :
     \E i \in 1..Len(nodes[tasks[id]].task.deps) :
        nodes[tasks[id]].task.deps[i] \notin DOMAIN tasks

\* C19: an executeAll call made while a registered task declares an
\* unregistered dependency fails at graph build, before the run starts: the
\* call changes no status, dispatches nothing, requests no backend start
\* and has not emitted orchestration-started.
C19_UnknownDependencyAborts ==
  [][(runs' = runs + 1 /\ MissingDependency) =>
       /\ sched'.pc = "rejected" /\ sched'.err = "build"
       /\ ~sched'.started
       /\ nodes' = nodes
       /\ execs' = execs
       /\ runningTasks' = runningTasks
       /\ bridge' = bridge]_vars

\* C19 witness: executeAll has failed at graph build, the registered task
\* still PENDING and never started.
C19_Witness ==
  /\ sched.pc = "rejected" /\ sched.err = "build"
  /\ MissingDependency
  /\ nodes # << >>
  /\ \A n \in NodeIds : nodes[n].status = PENDING /\ nodes[n].starts = 0

\* C20: when executeAll resolves, every TaskResult of the result map is
\* COMPLETED or FAILED.
C20_ResolvedMeansAllTerminal ==
  [][(sched'.pc = "resolved" /\ sched.pc # "resolved") =>
       \A id \in DOMAIN results' :
          nodes'[results'[id]].status \in Terminal]_vars

\* C20 witness: executeAll has resolved with a COMPLETED and a FAILED
\* result in the result map and no other.
C20_Witness ==
  /\ sched.pc = "resolved"
  /\ GetStatistics.completed >= 1
  /\ GetStatistics.failed >= 1
  /\ GetStatistics.total = GetStatistics.completed + GetStatistics.failed

\* No backend start has failed, no server was found stopped at its
\* completion check and no approval was refused or impossible: no
\* TaskResult carries an error.
NoFailure == \A n \in NodeIds : ~nodes[n].error

\* executeAll has resolved and every registered task is COMPLETED.
ResolvedAllCompleted ==
  /\ sched.pc = "resolved"
  /\ \A id \in DOMAIN results : nodes[results[id]].status = COMPLETED

C22_DependencyEndsBeforeStart ==
  \A n \in NodeIds :
     \A i \in 1..Len(ParentsOf(n)) :
        LET p == ParentsOf(n)[i] IN
        (nodes[n].status = COMPLETED /\ nodes[p].status = COMPLETED) =>
           nodes[p].endTime < nodes[n].startTime

\* The ids registered by addTask between the previous executeAll call (or
\* the construction) and the current one.
RegisteredForRun ==
  { nodes[n].task.id : n \in {k \in NodeIds : /\ nodes[k].origin = "add"
                                              /\ nodes[k].forRun = runs} }

\* The ids of the returned map whose TaskResult was made by addTask.
ReturnedRegistered ==
  { id \in DOMAIN results : nodes[results[id]].origin = "add" }

\* C23: the map returned by executeAll holds, of the registered tasks, one
\* entry for each task registered for that run and none of an earlier run.
C23_ReturnedMapOfThisRun ==
  [][(sched'.pc = "resolved" /\ sched.pc # "resolved") =>
       (ReturnedRegistered = RegisteredForRun)']_vars

\* The node that was dispatched as execution e of execution table ex (the
\* execution may have gone on to the fallback of that node).
Dispatched(ns, ex, e) ==
  IF ns[ex[e].node].origin = "fallback"
  THEN CHOOSE o \in 1..Len(ns) : ns[o].replacedBy = ex[e].node
  ELSE ex[e].node

\* C24: no task is dispatched while the execution of a task without the
\* parallel flag, its retries and fallback included, is in flight: such an
\* execution is the last one of its dispatch round and the scheduler is
\* suspended on it.
C24_SerialTaskAwaited ==
  [][/\ Len(execs') > Len(execs) =>
          /\ \A e \in 1..Len(execs) :
                InFlight(e) => nodes[Dispatched(nodes, execs, e)].task.parallel
          /\ \A e \in (Len(execs) + 1)..(Len(execs') - 1) :
                nodes'[Dispatched(nodes', execs', e)].task.parallel
     /\ \A e \in 1..Len(execs') :
          (/\ execs'[e].pc \notin Settled
           /\ ~nodes'[Dispatched(nodes', execs', e)].task.parallel) =>
             sched'.pc = "awaitTask" /\ sched'.awaiting = e]_vars

\* C24 witness: the execution of a task without the parallel flag has gone
\* on to its fallback, the scheduler is suspended on it although a task is
\* ready and a slot is free, and a task with the parallel flag is in flight
\* alongside.
C24_Witness ==
  \E e, f \in 1..Len(execs) :
     /\ InFlight(e) /\ InFlight(f) /\ f < e
     /\ nodes[execs[e].node].origin = "fallback"
     /\ ~nodes[Dispatched(nodes, execs, e)].task.parallel
     /\ nodes[Dispatched(nodes, execs, f)].task.parallel
     /\ sched.pc = "awaitTask" /\ sched.awaiting = e
     /\ GetReadyTasks(order, nodes, parents) # << >>
     /\ runningTasks < maxParallel

\* The nodes of the task map that are PENDING with every parent COMPLETED.
ReadyNodes ==
  { tasks[id] : id \in { k \in DOMAIN tasks :
                           /\ nodes[tasks[k]].status = PENDING
                           /\ \A i \in 1..Len(ParentsOf(tasks[k])) :
                                 nodes[ParentsOf(tasks[k])[i]].status
                                   = COMPLETED } }

\* C25: in every state getReadyTasks returns exactly the nodes of the task
\* map that are PENDING with every parent COMPLETED, each once, in the order
\* in which the nodes were registered.
C25_ReadyInRegistrationOrder ==
  LET r == GetReadyTasks(order, nodes, parents) IN
  /\ { r[i] : i \in 1..Len(r) } = ReadyNodes
  /\ \A i, j \in 1..Len(r) : i < j => r[i] < r[j]

\* addTask is called in this step.
AddTaskCalled == added' = added + 1

\* C26: a call of addTask adds one node, PENDING with retryCount 0, and
\* nothing else: every node and every entry of the task map and of the
\* result map stays as it was, no execution is started, the in-flight
\* counter and the bridge process are untouched and no lifecycle event is
\* emitted.
C26_AddTaskPurelyAdditive ==
  [][AddTaskCalled =>
       /\ Len(nodes') = Len(nodes) + 1
       /\ nodes'[Len(nodes')].status = PENDING
       /\ nodes'[Len(nodes')].retryCount = 0
       /\ tasks'[batch[added'].id] = Len(nodes')
       /\ results'[batch[added'].id] = Len(nodes')
       /\ \A n \in NodeIds : nodes'[n] = nodes[n]
       /\ \A id \in DOMAIN tasks : tasks'[id] = tasks[id]
       /\ \A id \in DOMAIN results : results'[id] = results[id]
       /\ UNCHANGED << execs, runningTasks, bridge, sched >>]_vars

\* The status of node n changes in this step.
StatusChanges(n) ==
  /\ n \in NodeIds /\ n \in 1..Len(nodes')
  /\ nodes'[n].status # nodes[n].status

\* C27 (as stated): every status change follows the task state machine: PENDING goes
\* only to RUNNING; WAITING_HITL (tasks with hitlGate only) and RETRYING
\* (only while retryCount < maxRetries) are entered only from RUNNING;
\* COMPLETED and FAILED are entered only from RUNNING, or FAILED from
\* WAITING_HITL on denial.
C27_StatusStateMachine ==
  [][\A n \in NodeIds :
       StatusChanges(n) =>
         LET from == nodes[n].status
             to == nodes'[n].status
         IN /\ from = PENDING => to = RUNNING
            /\ to = WAITING_HITL => from = RUNNING /\ nodes[n].task.hitlGate
            /\ to = RETRYING =>
                  /\ from = RUNNING
                  /\ nodes[n].retryCount < nodes[n].task.maxRetries
            /\ to = COMPLETED => from = RUNNING
            /\ to = FAILED =>
                  \/ from = RUNNING
                  \/ from = WAITING_HITL /\ nodes'[n].hitlApproved = "no"]_vars

\* C27 (amended): every status change is one of PENDING -> RUNNING;
\* RUNNING -> WAITING_HITL (tasks with hitlGate only); WAITING_HITL ->
\* RUNNING on approval; RUNNING -> RETRYING and, on denial, WAITING_HITL ->
\* RETRYING, only while retryCount < maxRetries; RETRYING -> RUNNING;
\* RUNNING -> COMPLETED; RUNNING -> FAILED and, on denial, WAITING_HITL ->
\* FAILED.
C27_StatusStateMachineAmended ==
  [][\A n \in NodeIds :
       StatusChanges(n) =>
         LET from == nodes[n].status
             to == nodes'[n].status
             denied == from = WAITING_HITL /\ nodes'[n].hitlApproved = "no"
         IN \/ from = PENDING /\ to = RUNNING
            \/ from = RUNNING /\ to = WAITING_HITL /\ nodes[n].task.hitlGate
            \/ /\ from = WAITING_HITL /\ to = RUNNING
               /\ nodes'[n].hitlApproved = "yes"
            \/ /\ from = RUNNING \/ denied
               /\ to = RETRYING
               /\ nodes[n].retryCount < nodes[n].task.maxRetries
            \/ from = RETRYING /\ to = RUNNING
            \/ from = RUNNING /\ to = COMPLETED
            \/ (from = RUNNING \/ denied) /\ to = FAILED]_vars

\* C27 witness: a task went from WAITING_HITL to RETRYING on denial, was
\* restarted and approved, and is COMPLETED.
C27_Witness ==
  \E n \in NodeIds :
     /\ nodes[n].task.hitlGate
     /\ nodes[n].retryCount = 1 /\ nodes[n].startOks = 2
     /\ nodes[n].hitlApproved = "yes"
     /\ nodes[n].status = COMPLETED

\* C28: once a TaskResult is COMPLETED or FAILED its status, retryCount and
\* endTime never change, whatever else happens in this run or in a later
\* executeAll call, as long as the node exists.
C28_TerminalAbsorbing ==
  [][\A n \in NodeIds :
       (nodes[n].status \in Terminal /\ n \in 1..Len(nodes')) =>
          /\ nodes'[n].status = nodes[n].status
          /\ nodes'[n].retryCount = nodes[n].retryCount
          /\ nodes'[n].endTime = nodes[n].endTime]_vars

\* C28 witness: a result that FAILED after a retry in the first run is as
\* it was when a second executeAll call has resolved with a task registered
\* later COMPLETED.
C28_Witness ==
  /\ runs = 2 /\ sched.pc = "resolved"
  /\ \E n, m \in NodeIds :
        /\ nodes[n].forRun = 1 /\ nodes[n].status = FAILED
        /\ nodes[n].retryCount = 1 /\ nodes[n].endTime # 0
        /\ nodes[m].forRun = 2 /\ nodes[m].status = COMPLETED
        /\ nodes[n].endTime < nodes[m].endTime

\* C29: in every state a TaskResult has endTime set if and only if its
\* status is COMPLETED or FAILED.
C29_EndTimeIffTerminal ==
  \A n \in NodeIds : (nodes[n].endTime # 0) <=> (nodes[n].status \in Terminal)

\* C29 witness: a COMPLETED and a FAILED result with endTime, next to a
\* result that failed once and is RETRYING, without endTime.
C29_Witness ==
  \E a, b, c \in NodeIds :
     /\ nodes[a].status = COMPLETED /\ nodes[a].endTime # 0
     /\ nodes[b].status = FAILED /\ nodes[b].endTime # 0
     /\ nodes[c].status = RETRYING /\ nodes[c].error
     /\ nodes[c].endTime = 0

\* C30: in every state a TaskResult carries an error only while its status
\* is FAILED or RETRYING.
C30_ErrorOnlyWhileFailing ==
  \A n \in NodeIds : nodes[n].error => nodes[n].status \in {FAILED, RETRYING}

\* C31: in every state the task map and the result map have the same keys,
\* and for every key the entry of the result map is the TaskResult of the
\* node the task map holds for that key, whose taskId is the key.
C31_OneResultPerTask ==
  /\ DOMAIN tasks = DOMAIN results
  /\ \A id \in DOMAIN tasks :
        /\ results[id] = tasks[id]
        /\ tasks[id] \in NodeIds
        /\ nodes[tasks[id]].task.id = id

\* C31 witness: after a cleanup made while an execution was in flight, the
\* fallback substituted by that execution is the only entry of both maps.
C31_Witness ==
  /\ cleanup.row >= 1
  /\ DOMAIN tasks = {"F"}
  /\ DOMAIN results = {"F"}
  /\ nodes[tasks["F"]].origin = "fallback"

\* The scheduler, resumed from Promise.race, has evaluated the loop test
\* and gone through a dispatch round in this step, and is suspended on
\* Promise.race again with an execution of the run in flight.
RaceReentered ==
  /\ sched.pc = "race" /\ sched'.pc = "race"
  /\ sched'.iter # sched.iter
  /\ \E e \in (sched'.qStart + 1)..Len(execs') : execs'[e].pc \notin Settled

\* C32: after a dispatch round the scheduler does not evaluate readiness
\* again before an execution that is in flight has made progress: the
\* Promise.race it is suspended on is not already decided by an execution
\* that ended in an earlier iteration.
C32_RaceWaitsForProgress ==
  [][RaceReentered => sched'.winner = 0]_vars

\* The ids the registered task `id` declares as dependencies.
DepIds(id) ==
  LET ds == nodes[tasks[id]].task.deps IN { ds[i] : i \in 1..Len(ds) }

\* The registered ids reached from the ids of S by following declared
\* dependencies at most k times.
RECURSIVE AncestorsUpTo(_, _)
AncestorsUpTo(S, k) ==
  IF k = 0 THEN S
  ELSE AncestorsUpTo(
         S \cup (UNION { DepIds(id) : id \in S } \cap DOMAIN tasks), k - 1)

Ancestors(id) ==
  AncestorsUpTo(DepIds(id) \cap DOMAIN tasks, Cardinality(DOMAIN tasks))

\* The registered ids that are on a dependency cycle or depend, directly or
\* not, on an id that is.
CycleIds ==
  { id \in DOMAIN tasks :
      \E m \in Ancestors(id) \cup {id} : m \in Ancestors(m) }

\* C33: when the registered tasks contain a dependency cycle, the graph
\* build raises no error, the tasks on the cycle and their dependents are
\* never dispatched and stay PENDING, and an executeAll call made with the
\* tasks registered does not resolve.
C33_CycleStallsSilently ==
  /\ \A id \in CycleIds :
        /\ nodes[tasks[id]].status = PENDING
        /\ nodes[tasks[id]].starts = 0
        /\ \A e \in 1..Len(execs) : execs[e].node # tasks[id]
  /\ (/\ CycleIds # {}
      /\ \A id \in DOMAIN tasks : nodes[tasks[id]].forRun <= runs) =>
        /\ sched.pc # "resolved"
        /\ ~MissingDependency => ~(sched.pc = "rejected" /\ sched.err = "build")

\* C33 witness: an independent task has COMPLETED, two tasks that depend on
\* each other are PENDING, and executeAll is in its loop with nothing in
\* flight.
C33_Witness ==
  /\ sched.pc \notin Ended
  /\ AllSettled(execs, 0)
  /\ \E d, a, b \in DOMAIN tasks :
        /\ nodes[tasks[d]].status = COMPLETED
        /\ a # b /\ a \in DepIds(b) /\ b \in DepIds(a)
        /\ {a, b} \subseteq CycleIds
        /\ nodes[tasks[a]].status = PENDING /\ nodes[tasks[b]].status = PENDING

\* C34: a task is COMPLETED only when the getServerStatus answer of the
\* attempt that completed it reported the server running; an attempt whose
\* answer was null or not running is a failure: the task is RETRYING,
\* FAILED or replaced by its fallback, and not COMPLETED.
C34_CompletedOnlyIfRunning ==
  \A n \in NodeIds :
     /\ nodes[n].status = COMPLETED =>
           /\ nodes[n].upAt = nodes[n].starts
           /\ nodes[n].okAt = nodes[n].starts
           /\ nodes[n].goneAt # nodes[n].starts
     /\ (nodes[n].goneAt # 0 /\ nodes[n].goneAt = nodes[n].starts) =>
           \/ nodes[n].status \in {RETRYING, FAILED}
           \/ nodes[n].replacedBy # 0

\* C34 witness: the server of a task was found stopped at the completion
\* check of its first attempt, and the task is COMPLETED by its second.
C34_Witness ==
  \E n \in NodeIds :
     /\ nodes[n].goneAt = 1
     /\ nodes[n].upAt = 2
     /\ nodes[n].status = COMPLETED

\* An attempt of execution e fails in this step: the execution leaves its
\* wait for the backend start, for the HITL callback or for the completion
\* check with an error.
AttemptFails(e) ==
  /\ e \in 1..Len(execs)
  /\ execs[e].pc \in {"start", "hitl", "wait"}
  /\ execs'[e] # execs[e]
  /\ execs'[e].pc \notin {"hitl", "wait", "fulfilled"}

\* The retry timer of execution e runs out in this step.
RetryTimerFires(e) ==
  /\ e \in 1..Len(execs)
  /\ execs[e].pc = "backoff"
  /\ execs'[e] # execs[e]

AnsweredRunning(e) ==
  /\ e \in 1..Len(execs)
  /\ execs[e].pc = "wait"
  /\ nodes'[execs[e].node].upAt = nodes'[execs[e].node].starts

\* The backend start of execution e, for a task with hitlGate, succeeds in
\* this step, a HITL callback being set.
AnsweredStartedGated(e) ==
  /\ e \in 1..Len(execs)
  /\ execs[e].pc = "start"
  /\ nodes[execs[e].node].task.hitlGate
  /\ hitlCallback
  /\ nodes'[execs[e].node].okAt = nodes'[execs[e].node].starts

\* C36: what a listener does, throwing included, has no effect on the
\* statuses: the status a task takes on an answer of the backend depends on
\* that answer only.  On the answer that its server is running the task is
\* COMPLETED and its execution ends; on the success of its backend start a
\* task with hitlGate is WAITING_HITL and the HITL callback is awaited.
C36_ListenersDoNotInterfere ==
  [][\A e \in 1..Len(execs) :
       LET n == execs[e].node IN
       /\ AnsweredRunning(e) =>
             /\ nodes'[n].status = COMPLETED
             /\ execs'[e] = [execs[e] EXCEPT !.pc = "fulfilled"]
       /\ AnsweredStartedGated(e) =>
             /\ nodes'[n].status = WAITING_HITL
             /\ execs'[e] = [execs[e] EXCEPT !.pc = "hitl"]]_vars

\* The positions of the recorded events with one of the names of S.
Emitted(S) == { i \in 1..Len(log) : log[i].ev \in S }

TaskEnded == {"task-completed", "task-failed"}

\* C37: the lifecycle events are emitted in order.  Every task-started comes
\* after the orchestration-started of the executeAll call that dispatched
\* the execution; every task-completed and task-failed comes after a
\* task-started of the same node, and at most one of them is emitted per
\* node; the task-started of a fallback comes after the task-fallback of
\* the task it replaces; orchestration-completed comes after every
\* task-completed and task-failed of the executions its call dispatched.
C37_EventsOrdered ==
  /\ \A i \in Emitted({"task-started"}) :
        \E j \in Emitted({"orchestration-started"}) :
           j < i /\ log[j].run = log[i].run
  /\ \A i \in Emitted(TaskEnded) :
        /\ \E j \in Emitted({"task-started"}) :
              j < i /\ log[j].node = log[i].node
        /\ \A k \in Emitted(TaskEnded) :
              log[k].node = log[i].node => k = i
  /\ \A i \in Emitted({"task-started"}) :
        nodes[log[i].node].origin = "fallback" =>
           \E j \in Emitted({"task-fallback"}) :
              j < i /\ nodes[log[j].node].replacedBy = log[i].node
  /\ \A i \in Emitted({"task-fallback"}) :
        \A j \in Emitted({"task-started"}) :
           log[j].node = nodes[log[i].node].replacedBy => i < j
  /\ \A i \in Emitted({"orchestration-completed"}) :
        \A k \in Emitted(TaskEnded) : log[k].run = log[i].run => k < i

\* C37 witness: a second executeAll call has emitted
\* orchestration-completed after a task-completed and a task-failed of its
\* own and a fallback substitution, and after a task-completed of an
\* execution left over from the first call.
C37_Witness ==
  /\ \E i \in Emitted({"orchestration-completed"}) :
        /\ log[i].run = 2
        /\ \E k \in Emitted({"task-completed"}) : log[k].run = 2
        /\ \E j \in Emitted({"orchestration-started"}) :
              /\ log[j].run = 2
              /\ \E k \in Emitted({"task-completed"}) :
                    log[k].run = 1 /\ j < k /\ k < i
  /\ Emitted({"task-fallback"}) # {}
  /\ Emitted({"task-failed"}) # {}

\* shutdown returns in this step.
ShutdownReturns == pm.sd.pc # "returned" /\ pm'.sd.pc = "returned"

\* C38: shutdown never throws, and when it returns every stopServer call
\* it made has ended, whether it failed or not, the bridge process
\* reference is null, the server table and the pending-request table are
\* empty and shutdownInProgress is false.
C38_ShutdownAlwaysCompletes ==
  [][/\ pm'.sd.pc # "thrown"
     /\ ShutdownReturns =>
          /\ \A pid \in DOMAIN pm'.sd.stops : pm'.sd.stops[pid] # "pending"
          /\ ~bridge'
          /\ pm'.servers = {}
          /\ pm'.pending = {}
          /\ ~pm'.shutdownInProgress]_vars

\* C39: a stopServer call for an id whose stop has succeeded before does
\* not throw.
C39_StopIdempotent ==
  [][\A pid \in ServerIds :
       (/\ pid \in pm.stopped
        /\ pm'.stop # pm.stop
        /\ pm'.stop.pid = pid) => pm'.stop.pc # "thrown"]_vars

\* C40: runningTasks is never negative and equals the number of dispatched
\* task executions that have not finished; it is 0 when none is executing.
C40_RunningTasksCountsInFlight ==
  /\ runningTasks >= 0
  /\ runningTasks = Cardinality({ e \in 1..Len(execs) : InFlight(e) })
====
